---- MODULE Spec2Model ----
(***************************************************************************)
(* Product store service: the Product model (service/models.py) and the    *)
(* REST handlers (service/routes.py), over a shared relational store and   *)
(* one SQLAlchemy session per request-handling worker.                     *)
(***************************************************************************)
EXTENDS Integers, Sequences, FiniteSets, TLC

\* ------------------------------------------------------------------ bounds

\* Number of rows that may be created in a run (ids FirstId, FirstId+1, ...).
MaxCreates == 2

\* ------------------------------------------------------- program constants

\* A serial primary key starts at 1 (db.Integer, primary_key=True).
FirstId == 1

\* "self.id = None": no id. 0 is a different value (falsy like None).
NoId == -1

HTTP_200_OK == 200
HTTP_201_CREATED == 201
HTTP_204_NO_CONTENT == 204
HTTP_404_NOT_FOUND == 404
HTTP_415_UNSUPPORTED_MEDIA_TYPE == 415

\* Request-handling workers, each with its own db.session. MainWorker is the
\* thread in which init_db pushed the application context.
Workers == {"w1", "w2"}
MainWorker == "w1"

\* ------------------------------------------------------------- Category

\* class Category(Enum): the member names.
CategoryMembers == {"UNKNOWN", "CLOTHS", "FOOD", "HOUSEWARES", "AUTOMOTIVE", "TOOLS"}

\* The docstring of class Category, the value of its attribute __doc__.
CategoryDoc == "Enumeration of valid Product Categories"

\* getattr(Category, attr): a one-element sequence holding the attribute's
\* value, or << >> when the class has no such attribute (AttributeError).
\* Besides its members an Enum class has its ordinary class attributes, of
\* which __doc__ (a str) stands here; member names are case-sensitive.
CategoryGetattr(attr) ==
  IF attr \in CategoryMembers THEN << attr >>
  ELSE IF attr = "__doc__" THEN << CategoryDoc >>
  ELSE << >>

\* ------------------------------------------------------------- Decimal

\* A Decimal is coef * 10^exp with exp <= 0 (the scale is kept: 12.50 and
\* 12.5 differ in text).
Dec(c, e) == [coef |-> c, exp |-> e]
NoPrice == Dec(0, 0)

Digit(d) == << "0", "1", "2", "3", "4", "5", "6", "7", "8", "9" >>[d + 1]

RECURSIVE IntStr(_)
IntStr(n) == IF n < 10 THEN Digit(n) ELSE IntStr(n \div 10) \o Digit(n % 10)

RECURSIVE Pow10(_)
Pow10(k) == IF k = 0 THEN 1 ELSE 10 * Pow10(k - 1)

RECURSIVE FracStr(_, _)
FracStr(n, k) == IF k = 0 THEN "" ELSE FracStr(n \div 10, k - 1) \o Digit(n % 10)

\* str(Decimal): the exact decimal text.
DecimalStr(d) ==
  IF d.exp = 0 THEN IntStr(d.coef)
  ELSE IntStr(d.coef \div Pow10(-d.exp)) \o "." \o FracStr(d.coef % Pow10(-d.exp), -d.exp)

\* JSON values of a request body: a type tag and the text of the value.
JStr(s) == [t |-> "str", v |-> s]
JNum(s) == [t |-> "num", v |-> s]
JBool(b) == [t |-> "bool", v |-> IF b THEN "true" ELSE "false"]
JNull == [t |-> "null", v |-> ""]
Missing == [t |-> "missing", v |-> ""]

\* Decimal(value): [exc |-> "" and the value], or the exception the
\* constructor raises: TypeError for None, decimal.InvalidOperation for a
\* string that is no number. Surrounding whitespace is accepted.
DecimalOf(j) ==
  IF j.t = "null" THEN [exc |-> "TypeError", val |-> NoPrice]
  ELSE IF j.v \in {"12.50", " 12.50 "} THEN [exc |-> "", val |-> Dec(1250, -2)]
  ELSE IF j.v = "12.5" THEN [exc |-> "", val |-> Dec(125, -1)]
  ELSE IF j.v = "7" THEN [exc |-> "", val |-> Dec(7, 0)]
  ELSE [exc |-> "InvalidOperation", val |-> NoPrice]

\* ------------------------------------------------------------- Product

\* A Product object. Product() has no field set.
Unset == "<unset>"
NewProduct ==
  [id |-> NoId, name |-> Unset, description |-> Unset, price |-> NoPrice,
   available |-> FALSE, category |-> Unset]

Keys == {"id", "name", "description", "price", "available", "category"}
RequiredKeys == {"name", "description", "price", "available", "category"}

\* A request body: a mapping of Keys to JSON values (Missing: no such key), or
\* something that is not a mapping at all.
Body(id, name, description, price, available, category) ==
  [mapping |-> TRUE,
   f |-> [k \in Keys |->
            CASE k = "id" -> id
              [] k = "name" -> name
              [] k = "description" -> description
              [] k = "price" -> price
              [] k = "available" -> available
              [] k = "category" -> category]]
NotAMapping == [mapping |-> FALSE, f |-> [k \in Keys |-> Missing]]

NoExc == [type |-> "", msg |-> ""]
DataValidationError(m) == [type |-> "DataValidationError", msg |-> m]

\* What deserialize raises when Decimal(data["price"]) raises exc: TypeError is
\* caught and wrapped (the text of the TypeError, which the message ends with,
\* is left out); decimal.InvalidOperation is an ArithmeticError, which no
\* except clause names, so it leaves deserialize as it is.
DecimalError(exc) ==
  IF exc = "TypeError"
    THEN DataValidationError("Invalid product: body of request contained bad or no data")
    ELSE [type |-> exc, msg |-> "decimal.ConversionSyntax"]

\* getattr(Category, data["category"]) for a str value.
CategoryOf(j) == CategoryGetattr(j.v)

\* Product.deserialize(data) on object p: the object as the assignments made
\* before the first failure leave it, and the exception raised (NoExc: none).
\* The id is not touched.
Deserialize(p, data) ==
  LET Fail(o, e) == [obj |-> o, exc |-> e]
      MissingKey(o, k) == Fail(o, DataValidationError("Invalid product: missing " \o k))
      f == data.f
  IN
  IF ~data.mapping
    THEN Fail(p, DataValidationError("Invalid product: body of request contained bad or no data"))
  ELSE IF f["name"] = Missing THEN MissingKey(p, "name")
  ELSE LET p1 == [p EXCEPT !.name = f["name"].v] IN
  IF f["description"] = Missing THEN MissingKey(p1, "description")
  ELSE LET p2 == [p1 EXCEPT !.description = f["description"].v] IN
  IF f["price"] = Missing THEN MissingKey(p2, "price")
  ELSE LET d == DecimalOf(f["price"]) IN
  IF d.exc # "" THEN Fail(p2, DecimalError(d.exc))
  ELSE LET p3 == [p2 EXCEPT !.price = d.val] IN
  IF f["available"] = Missing THEN MissingKey(p3, "available")
  ELSE IF f["available"].t # "bool"
    THEN Fail(p3, DataValidationError("Invalid type for boolean [available]: " \o f["available"].t))
  ELSE LET p4 == [p3 EXCEPT !.available = (f["available"].v = "true")] IN
  IF f["category"] = Missing THEN MissingKey(p4, "category")
  ELSE IF f["category"].t # "str"
    THEN Fail(p4, DataValidationError("Invalid product: body of request contained bad or no data"))
  ELSE LET c == CategoryOf(f["category"]) IN
  IF c = << >>
    THEN Fail(p4, DataValidationError("Invalid attribute: " \o f["category"].v))
  ELSE Fail([p4 EXCEPT !.category = c[1]], NoExc)

\* Product.serialize(): price as its decimal text, category as its member's
\* name. A category that is no member has no .name (AttributeError): << >>.
Serialize(p) ==
  IF p.category \in CategoryMembers
    THEN << [id |-> p.id, name |-> p.name, description |-> p.description,
             price |-> DecimalStr(p.price), available |-> p.available,
             category |-> p.category] >>
    ELSE << >>

\* ------------------------------------------------------- requests, state

\* The Content-Type header of a request ("" : no such header).
ContentTypes == {"application/json", "text/plain", ""}
JSON == "application/json"

\* Query parameters of GET /products: present or not, and the text.
ArgKeys == {"name", "category", "available"}
Arg(s) == [present |-> TRUE, v |-> s]
Absent == [present |-> FALSE, v |-> ""]
NoArgs == [k \in ArgKeys |-> Absent]

\* A PUT request: the id of its URL, its body, and whether it ran while
\* another worker's PUT of the same id was being handled.
NoReq == [kind |-> "", id |-> NoId, data |-> NotAMapping, overlap |-> FALSE]
PutReq(i, data, o) == [kind |-> "PUT", id |-> i, data |-> data, overlap |-> o]
NoResp == [status |-> 0, exc |-> NoExc, body |-> {}]

\* Product ids a URL can name: <int:product_id> matches the non-negative
\* integers; one id beyond those ever created is among them.
ReqIds == 0 .. (FirstId + MaxCreates)

VARIABLES
  store,     \* the committed rows of table product: id -> row
  nextId,    \* the next value of the primary key's sequence
  created,   \* the ids assigned by create so far, in order
  ident,     \* per worker: the session's loaded objects, id -> [orig, cur]
  pc,        \* per worker: where its handler stands
  req,       \* per worker: its PUT request, being handled or just answered
  resp,      \* per worker: its last response (NoResp while a handler runs)
  prod       \* per worker: the Product built by POST, between its two steps

vars == << store, nextId, created, ident, pc, req, resp, prod >>

Empty == [i \in {} |-> NewProduct]
EmptySession == [i \in {} |-> [orig |-> NewProduct, cur |-> NewProduct]]

Init ==
  /\ store = Empty
  /\ nextId = FirstId
  /\ created = << >>
  /\ ident = [w \in Workers |-> EmptySession]
  /\ pc = [w \in Workers |-> "idle"]
  /\ req = [w \in Workers |-> NoReq]
  /\ resp = [w \in Workers |-> NoResp]
  /\ prod = [w \in Workers |-> NewProduct]

\* ------------------------------------------------------------ db.session

\* An object as loaded from row r: nothing changed yet.
Fresh(r) == [orig |-> r, cur |-> r]

\* The objects of session m with a net change: an attribute set to the value
\* it was loaded with is no change.
Dirty(m) == {i \in DOMAIN m : m[i].cur # m[i].orig}

\* The UPDATE the unit of work emits for object e on row r: it sets the
\* columns whose value differs from the loaded one, and only those.
Merge(r, e) ==
  [id |-> r.id,
   name |-> IF e.cur.name # e.orig.name THEN e.cur.name ELSE r.name,
   description |-> IF e.cur.description # e.orig.description
                     THEN e.cur.description ELSE r.description,
   price |-> IF e.cur.price # e.orig.price THEN e.cur.price ELSE r.price,
   available |-> IF e.cur.available # e.orig.available
                   THEN e.cur.available ELSE r.available,
   category |-> IF e.cur.category # e.orig.category
                  THEN e.cur.category ELSE r.category]

\* The exception of flushing the objects D of session m, "" if none: an
\* UPDATE that matches no row (the row was deleted by another session), or a
\* category the Enum(Category) column does not take.
FlushError(m, D) ==
  IF \E i \in D : i \notin DOMAIN store THEN "StaleDataError"
  ELSE IF \E i \in D : m[i].cur.category \notin CategoryMembers THEN "DataError"
  ELSE ""

\* The table after the UPDATEs of the objects D of session m.
Flushed(m, D) ==
  [i \in DOMAIN store |-> IF i \in D THEN Merge(store[i], m[i]) ELSE store[i]]

\* cls.query.get(product_id): the session's object if it holds one (no SELECT
\* is emitted), else the row; {} is None.
Find(m, i) ==
  IF i \in DOMAIN m THEN {m[i].cur}
  ELSE IF i \in DOMAIN store THEN {store[i]} ELSE {}

\* The session after Find(m, i): the row found is now one of its objects.
Loaded(m, i) ==
  IF i \in DOMAIN m \/ i \notin DOMAIN store THEN m ELSE (i :> Fresh(store[i])) @@ m

\* The session once a handler has returned and its references to the objects
\* are gone: the session refers weakly to its unchanged objects, which go with
\* the last reference, and strongly to those with pending changes.
Released(m) == [i \in Dirty(m) |-> m[i]]

\* Row i as a query of session m sees it: the committed row with the
\* session's own pending changes, which autoflush writes before the SELECT.
DbRow(m, i) == IF i \in Dirty(m) THEN Merge(store[i], m[i]) ELSE store[i]

\* The object a query of session m returns for row i.
Obj(m, i) == IF i \in DOMAIN m THEN m[i].cur ELSE store[i]

\* The session after a query returned the rows S.
LoadedAll(m, S) ==
  [i \in DOMAIN m \cup S |-> IF i \in DOMAIN m THEN m[i] ELSE Fresh(store[i])]

\* Product.all() and the find_by_ queries, in session m.
All(m) == {Obj(m, i) : i \in DOMAIN store}
FindByName(m, name) == {Obj(m, i) : i \in {j \in DOMAIN store : DbRow(m, j).name = name}}
FindByAvailability(m, available) ==
  {Obj(m, i) : i \in {j \in DOMAIN store : DbRow(m, j).available = available}}
FindByCategory(m, category) ==
  {Obj(m, i) : i \in {j \in DOMAIN store : DbRow(m, j).category = category}}

\* The response for an exception that leaves a handler.
StatusOf(exc) == IF exc.type = "DataValidationError" THEN 400 ELSE 500
ErrorResponse(exc) == [status |-> StatusOf(exc), exc |-> exc, body |-> {}]
Abort(status, m) == [status |-> status, exc |-> [type |-> "HTTPException", msg |-> m], body |-> {}]

\* check_content_type("application/json")
ContentTypeOk(h) == h = "application/json"

Truthy(i) == i # NoId /\ i # 0

\* ------------------------------------------------------------ inputs

Hat == Body(Missing, JStr("hat"), JStr("red"), JStr("12.50"), JBool(TRUE), JStr("CLOTHS"))
Cap == Body(Missing, JStr("cap"), JStr("red"), JStr("12.50"), JBool(TRUE), JStr("CLOTHS"))
\* as a client sends back what serialize gave it: with an "id" key
Soup == Body(JNum("1"), JStr("hat"), JStr("blue"), JStr("12.50"), JBool(FALSE), JStr("FOOD"))

BadAvailable == Body(Missing, JStr("cap"), JStr("blue"), JStr("12.50"), JStr("yes"), JStr("FOOD"))
BadPrice == Body(Missing, JStr("cap"), JStr("red"), JStr("abc"), JBool(TRUE), JStr("CLOTHS"))
NullPrice == Body(Missing, JStr("hat"), JStr("red"), JNull, JBool(TRUE), JStr("CLOTHS"))
NoCategory == Body(Missing, JStr("hat"), JStr("red"), JStr("12.50"), JBool(TRUE), Missing)
DocCategory == Body(Missing, JStr("hat"), JStr("red"), JStr("12.50"), JBool(TRUE), JStr("__doc__"))
LowerCategory == Body(Missing, JStr("hat"), JStr("red"), JStr("12.50"), JBool(TRUE), JStr("cloths"))

ValidBodies == {Hat, Cap, Soup}
Bodies ==
  ValidBodies \cup
  {BadAvailable, BadPrice, NullPrice, NoCategory, DocCategory, LowerCategory, NotAMapping}

NameArgs == {Absent, Arg(""), Arg("hat")}
CategoryArgs == {Absent, Arg(""), Arg("food"), Arg("bogus")}
AvailableArgs == {Absent, Arg(""), Arg("YES"), Arg("no")}

\* str.upper() and str.lower() on the parameter texts above.
Upper(s) ==
  CASE s = "food" -> "FOOD"
    [] s = "bogus" -> "BOGUS"
    [] OTHER -> s
Lower(s) ==
  CASE s = "YES" -> "yes"
    [] OTHER -> s

\* ------------------------------------------------------------ Product.create

\* A create without "self.id = None": the INSERT names the id the caller set.
CreateIdKept(p) == IF p.id # NoId THEN p.id ELSE nextId

\* A create over a key sequence that numbers the rows from zero.
CreateIdFromZero(p) == nextId - 1

\* A create whose INSERT leaves the category to the column's server default.
InsertRowDefault(p, i) == [p EXCEPT !.id = i, !.category = "UNKNOWN"]

\* The id of the new row: create sets self.id = None, so the INSERT names no
\* id and the sequence gives the next one.
CreateId(p) == nextId

\* The row the INSERT writes for object p.
InsertRow(p, i) == [p EXCEPT !.id = i]

\* Product.create() of object p in session m: add, commit. The commit flushes
\* the session's pending changes with the INSERT, in one transaction; when it
\* fails the transaction is rolled back and every object is expired.
Create(m, p) ==
  LET i == CreateId(p)
      D == Dirty(m)
      err == IF FlushError(m, D) # "" THEN FlushError(m, D)
             ELSE IF p.category \notin CategoryMembers THEN "DataError"
             ELSE IF i \in DOMAIN store THEN "IntegrityError"
             ELSE ""
  IN IF err = ""
       THEN [exc |-> NoExc,
             store |-> (i :> InsertRow(p, i)) @@ Flushed(m, D),
             nextId |-> IF i = nextId THEN nextId + 1 ELSE nextId,
             created |-> Append(created, i),
             \* reading the object after the commit loads it again
             session |-> (i :> Fresh(InsertRow(p, i)))]
       ELSE [exc |-> [type |-> err, msg |-> "commit"],
             store |-> store, nextId |-> nextId, created |-> created,
             session |-> EmptySession]

\* A 2xx response carrying the serialized products S.
OkResponse(status, S) ==
  IF \E p \in S : Serialize(p) = << >>
    THEN ErrorResponse([type |-> "AttributeError", msg |-> "name"])
    ELSE [status |-> status, exc |-> NoExc, body |-> {Serialize(p)[1] : p \in S}]

\* ------------------------------------------------------------ handlers

\* POST /products with Content-Type h and body data, to the end of deserialize.
PostDeserialize(w, h, data) ==
  /\ pc[w] = "idle"
  /\ LET d == Deserialize(NewProduct, data) IN
     IF ~ContentTypeOk(h)
       THEN /\ resp' = [resp EXCEPT ![w] =
                  Abort(HTTP_415_UNSUPPORTED_MEDIA_TYPE, "Content-Type must be application/json")]
            /\ UNCHANGED << pc, prod >>
     ELSE IF d.exc # NoExc
       THEN /\ resp' = [resp EXCEPT ![w] = ErrorResponse(d.exc)]
            /\ UNCHANGED << pc, prod >>
     ELSE /\ resp' = [resp EXCEPT ![w] = NoResp]
          /\ pc' = [pc EXCEPT ![w] = "post_deser"]
          /\ prod' = [prod EXCEPT ![w] = d.obj]
  /\ req' = [req EXCEPT ![w] = NoReq]
  /\ UNCHANGED << store, nextId, created, ident >>

\* POST /products: product.create() and the response.
PostCreate(w) ==
  /\ pc[w] = "post_deser"
  /\ Len(created) < MaxCreates
  /\ LET c == Create(ident[w], prod[w]) IN
     /\ store' = c.store
     /\ nextId' = c.nextId
     /\ created' = c.created
     /\ ident' = [ident EXCEPT ![w] = Released(c.session)]
     /\ resp' = [resp EXCEPT ![w] =
                   IF c.exc # NoExc THEN ErrorResponse(c.exc)
                   ELSE OkResponse(HTTP_201_CREATED, {c.session[i].cur : i \in DOMAIN c.session})]
  /\ pc' = [pc EXCEPT ![w] = "idle"]
  /\ prod' = [prod EXCEPT ![w] = NewProduct]
  /\ UNCHANGED req

\* product.create() called on a Product the caller built from data and gave
\* the id cid (as the model tests do with factory-made products). The
\* response stands for what the caller reads from the object afterwards; the
\* caller keeps the object, so the session does.
ProductCreate(w, data, cid) ==
  /\ pc[w] = "idle"
  /\ Len(created) < MaxCreates
  /\ LET d == Deserialize(NewProduct, data)
         c == Create(ident[w], [d.obj EXCEPT !.id = cid])
     IN /\ d.exc = NoExc
        /\ store' = c.store
        /\ nextId' = c.nextId
        /\ created' = c.created
        /\ ident' = [ident EXCEPT ![w] = c.session]
        /\ resp' = [resp EXCEPT ![w] =
                      IF c.exc # NoExc THEN ErrorResponse(c.exc)
                      ELSE OkResponse(HTTP_201_CREATED, {c.session[i].cur : i \in DOMAIN c.session})]
  /\ req' = [req EXCEPT ![w] = NoReq]
  /\ UNCHANGED << pc, prod >>

\* get_products: the response of GET /products/<i> in session m.
GetResponse(m, i) ==
  IF Find(m, i) = {}
    THEN Abort(HTTP_404_NOT_FOUND, "Product with id '" \o IntStr(i) \o "' was not found.")
    ELSE OkResponse(HTTP_200_OK, Find(m, i))

\* GET /products/<i>
GetProducts(w, i) ==
  /\ pc[w] = "idle"
  /\ ident' = [ident EXCEPT ![w] = Released(Loaded(ident[w], i))]
  /\ resp' = [resp EXCEPT ![w] = GetResponse(ident[w], i)]
  /\ req' = [req EXCEPT ![w] = NoReq]
  /\ UNCHANGED << store, nextId, created, pc, prod >>

\* DELETE /products/<i>: find, and delete() when found. The commit flushes
\* the session's other pending changes with the DELETE; a DELETE that matches
\* no row is no error.
DeleteProducts(w, i) ==
  /\ pc[w] = "idle"
  /\ LET m == ident[w]
         D == Dirty(m) \ {i}
         err == FlushError(m, D)
     IN
     IF Find(m, i) = {}
       THEN /\ resp' = [resp EXCEPT ![w] = [NoResp EXCEPT !.status = HTTP_204_NO_CONTENT]]
            /\ ident' = [ident EXCEPT ![w] = Released(m)]
            /\ UNCHANGED store
     ELSE IF err # ""
       THEN /\ resp' = [resp EXCEPT ![w] = ErrorResponse([type |-> err, msg |-> "commit"])]
            /\ ident' = [ident EXCEPT ![w] = EmptySession]
            /\ UNCHANGED store
     ELSE /\ resp' = [resp EXCEPT ![w] = [NoResp EXCEPT !.status = HTTP_204_NO_CONTENT]]
          /\ store' = [j \in DOMAIN store \ {i} |-> Flushed(m, D)[j]]
          /\ ident' = [ident EXCEPT ![w] = EmptySession]
  /\ req' = [req EXCEPT ![w] = NoReq]
  /\ UNCHANGED << nextId, created, pc, prod >>

\* The query parameters name=n, category=c, available=a.
Args(n, c, a) ==
  [k \in ArgKeys |-> CASE k = "name" -> n [] k = "category" -> c [] k = "available" -> a]

\* A parameter that is absent (None) or empty is falsy.
Given(a) == a.present /\ a.v # ""

\* A list_products that tests category before name.
ListProductsCategoryFirst(m, args) ==
  LET name == args["name"]
      category == args["category"]
      available == args["available"]
      category_value == CategoryGetattr(Upper(category.v))
      available_value == Lower(available.v) \in {"true", "yes", "1"}
  IN IF Given(category)
       THEN IF category_value = << >>
              THEN [exc |-> [type |-> "AttributeError", msg |-> Upper(category.v)],
                    products |-> {}]
              ELSE [exc |-> NoExc, products |-> FindByCategory(m, category_value[1])]
     ELSE IF Given(name) THEN [exc |-> NoExc, products |-> FindByName(m, name.v)]
     ELSE IF Given(available)
       THEN [exc |-> NoExc, products |-> FindByAvailability(m, available_value)]
     ELSE [exc |-> NoExc, products |-> All(m)]

\* list_products: the products the request's parameters select, or the
\* exception of getattr(Category, category.upper()).
ListProducts(m, args) ==
  LET name == args["name"]
      category == args["category"]
      available == args["available"]
      category_value == CategoryGetattr(Upper(category.v))
      available_value == Lower(available.v) \in {"true", "yes", "1"}
  IN IF Given(name) THEN [exc |-> NoExc, products |-> FindByName(m, name.v)]
     ELSE IF Given(category)
       THEN IF category_value = << >>
              THEN [exc |-> [type |-> "AttributeError", msg |-> Upper(category.v)],
                    products |-> {}]
              ELSE [exc |-> NoExc, products |-> FindByCategory(m, category_value[1])]
     ELSE IF Given(available)
       THEN [exc |-> NoExc, products |-> FindByAvailability(m, available_value)]
     ELSE [exc |-> NoExc, products |-> All(m)]

\* list_products: the response of GET /products in session m.
ListResponse(m, args) ==
  LET r == ListProducts(m, args) IN
  IF r.exc # NoExc THEN ErrorResponse(r.exc) ELSE OkResponse(HTTP_200_OK, r.products)

\* GET /products. In the one session that runs it a pending change is never
\* one the store refuses, so the autoflush before the SELECT does not fail.
\* (Nor does it where several sessions run: there every lookup is of the one
\* product, and finds the session's own changed object without a SELECT.)
List(w, args) ==
  /\ pc[w] = "idle"
  /\ LET r == ListProducts(ident[w], args) IN
     /\ ident' = [ident EXCEPT ![w] = Released(LoadedAll(ident[w], {q.id : q \in r.products}))]
     /\ resp' = [resp EXCEPT ![w] = ListResponse(ident[w], args)]
  /\ req' = [req EXCEPT ![w] = NoReq]
  /\ UNCHANGED << store, nextId, created, pc, prod >>

\* Whether another worker is handling a PUT of id i.
Overlaps(w, i) ==
  \E o \in Workers \ {w} : pc[o] \in {"put_found", "put_deser"} /\ req[o].id = i

\* PUT /products/<i> with Content-Type h and body data, to the end of find.
PutFind(w, i, h, data) ==
  /\ pc[w] = "idle"
  /\ IF ~ContentTypeOk(h)
       THEN /\ resp' = [resp EXCEPT ![w] =
                  Abort(HTTP_415_UNSUPPORTED_MEDIA_TYPE, "Content-Type must be application/json")]
            /\ req' = [req EXCEPT ![w] = PutReq(i, data, FALSE)]
            /\ ident' = [ident EXCEPT ![w] = Released(ident[w])]
            /\ UNCHANGED pc
     ELSE IF Find(ident[w], i) = {}
       THEN /\ resp' = [resp EXCEPT ![w] =
                  Abort(HTTP_404_NOT_FOUND, "Product with id '" \o IntStr(i) \o "' was not found.")]
            /\ req' = [req EXCEPT ![w] = PutReq(i, data, FALSE)]
            /\ ident' = [ident EXCEPT ![w] = Released(ident[w])]
            /\ UNCHANGED pc
     ELSE /\ resp' = [resp EXCEPT ![w] = NoResp]
          /\ pc' = [pc EXCEPT ![w] = "put_found"]
          /\ ident' = [ident EXCEPT ![w] = Loaded(ident[w], i)]
          /\ req' = [o \in Workers |->
                       IF o = w THEN PutReq(i, data, Overlaps(w, i))
                       ELSE IF pc[o] \in {"put_found", "put_deser"} /\ req[o].id = i
                         THEN [req[o] EXCEPT !.overlap = TRUE]
                       ELSE req[o]]
  /\ UNCHANGED << store, nextId, created, prod >>

\* PUT /products/<id>: product.deserialize(request.get_json()) on the object
\* found, which is the session's; then product.id = product_id.
PutDeserialize(w) ==
  /\ pc[w] = "put_found"
  /\ LET i == req[w].id
         d == Deserialize(ident[w][i].cur, req[w].data)
         m == [ident[w] EXCEPT ![i].cur = d.obj]
     IN IF d.exc # NoExc
          THEN /\ resp' = [resp EXCEPT ![w] = ErrorResponse(d.exc)]
               /\ pc' = [pc EXCEPT ![w] = "idle"]
               /\ ident' = [ident EXCEPT ![w] = Released(m)]
          ELSE /\ pc' = [pc EXCEPT ![w] = "put_deser"]
               /\ ident' = [ident EXCEPT ![w] = m]
               /\ UNCHANGED resp
  /\ UNCHANGED << store, nextId, created, req, prod >>

\* Product.update(): the check of self.id, then the exception of the commit
\* (NoExc if none). The commit flushes every pending change of the session.
Update(m, i) ==
  IF ~Truthy(i) THEN DataValidationError("Update called with empty ID field")
  ELSE IF FlushError(m, Dirty(m)) # "" THEN [type |-> FlushError(m, Dirty(m)), msg |-> "commit"]
  ELSE NoExc

\* PUT /products/<id>: product.update() and the response. Serializing the
\* object after the commit loads its row again.
PutUpdate(w) ==
  /\ pc[w] = "put_deser"
  /\ LET i == req[w].id
         m == ident[w]
         exc == Update(m, i)
         table == Flushed(m, Dirty(m))
     IN IF exc.type = "DataValidationError"
          THEN /\ resp' = [resp EXCEPT ![w] = ErrorResponse(exc)]
               /\ ident' = [ident EXCEPT ![w] = Released(m)]
               /\ UNCHANGED store
        ELSE IF exc # NoExc
          THEN /\ resp' = [resp EXCEPT ![w] = ErrorResponse(exc)]
               /\ ident' = [ident EXCEPT ![w] = EmptySession]
               /\ UNCHANGED store
        ELSE IF i \notin DOMAIN store
          THEN /\ resp' = [resp EXCEPT ![w] =
                      ErrorResponse([type |-> "ObjectDeletedError", msg |-> "refresh"])]
               /\ ident' = [ident EXCEPT ![w] = EmptySession]
               /\ UNCHANGED store
        ELSE /\ store' = table
             /\ ident' = [ident EXCEPT ![w] = Released((i :> Fresh(table[i])))]
             /\ resp' = [resp EXCEPT ![w] = OkResponse(HTTP_200_OK, {table[i]})]
  /\ pc' = [pc EXCEPT ![w] = "idle"]
  /\ UNCHANGED << nextId, created, req, prod >>

\* db.session.remove(): the session is closed, its transaction rolled back
\* and its objects dropped; the request is over.
SessionRemove(w) ==
  /\ pc[w] = "idle"
  /\ ident[w] # EmptySession \/ req[w] # NoReq \/ resp[w] # NoResp
  /\ ident' = [ident EXCEPT ![w] = EmptySession]
  /\ req' = [req EXCEPT ![w] = NoReq]
  /\ resp' = [resp EXCEPT ![w] = NoResp]
  /\ UNCHANGED << store, nextId, created, pc, prod >>

\* ------------------------------------------------------------ specifications

\* The bodies tried with a request that is refused before its body is read.
BodiesOf(B, read) == IF read THEN B ELSE {Hat}

\* The creates begun: those done and those between deserialize and create.
Begun == Len(created) + Cardinality({w \in Workers : pc[w] = "post_deser"})

Post(w, B) ==
  /\ Begun < MaxCreates
  /\ \E h \in ContentTypes : \E data \in BodiesOf(B, ContentTypeOk(h)) :
       PostDeserialize(w, h, data)
ModelCreate(w) ==
  \E data \in ValidBodies, cid \in {NoId} \cup ReqIds : ProductCreate(w, data, cid)
Get(w) == \E i \in ReqIds : GetProducts(w, i)
Delete(w) == \E i \in ReqIds : DeleteProducts(w, i)
ListAll(w) ==
  \E n \in NameArgs, c \in CategoryArgs, a \in AvailableArgs : List(w, Args(n, c, a))
Put(w, B) ==
  \E i \in ReqIds, h \in ContentTypes :
    \E data \in BodiesOf(B, ContentTypeOk(h) /\ Find(ident[w], i) # {}) :
      PutFind(w, i, h, data)

\* Creation, lookup and deletion only, on one session.
NextLife ==
  \/ Post(MainWorker, ValidBodies)
  \/ PostCreate(MainWorker)
  \/ ModelCreate(MainWorker)
  \/ Get(MainWorker)
  \/ Delete(MainWorker)
  \/ SessionRemove(MainWorker)

SpecLife == Init /\ [][NextLife]_vars

\* One worker: every request runs in the thread that pushed the application
\* context, on its one session.
Next ==
  \/ Post(MainWorker, Bodies)
  \/ PostCreate(MainWorker)
  \/ ModelCreate(MainWorker)
  \/ Get(MainWorker)
  \/ Delete(MainWorker)
  \/ ListAll(MainWorker)
  \/ Put(MainWorker, Bodies)
  \/ PutDeserialize(MainWorker)
  \/ PutUpdate(MainWorker)
  \/ SessionRemove(MainWorker)

Spec == Init /\ [][Next]_vars

\* Several workers, each with its own session, their handlers interleaved at
\* the steps find, deserialize and commit. It starts where POST of Hat has
\* created the first product; the requests are GET, PUT and DELETE of that
\* product.
InitConc ==
  /\ store = (FirstId :> InsertRow(Deserialize(NewProduct, Hat).obj, FirstId))
  /\ nextId = FirstId + 1
  /\ created = << FirstId >>
  /\ ident = [w \in Workers |-> EmptySession]
  /\ pc = [w \in Workers |-> "idle"]
  /\ req = [w \in Workers |-> NoReq]
  /\ resp = [w \in Workers |-> NoResp]
  /\ prod = [w \in Workers |-> NewProduct]

NextConc ==
  \E w \in Workers :
    \/ GetProducts(w, FirstId)
    \/ DeleteProducts(w, FirstId)
    \/ \E data \in ValidBodies \cup {BadAvailable} : PutFind(w, FirstId, JSON, data)
    \/ PutDeserialize(w)
    \/ PutUpdate(w)
    \/ SessionRemove(w)

SpecConc == InitConc /\ [][NextConc]_vars

\* ------------------------------------------------------------ properties

Range(q) == {q[k] : k \in 1 .. Len(q)}

\* Product i was created and has been removed by delete.
Deleted(i) == i \in Range(created) /\ i \notin DOMAIN store

\* The five fields of p and q agree.
SameFields(p, q) ==
  /\ p.name = q.name
  /\ p.description = q.description
  /\ p.price = q.price
  /\ p.available = q.available
  /\ p.category = q.category

\* C1: once a product that was created has been removed by delete, every
\* lookup of its id, find(id) or GET /products/<id>, in any session, reports
\* not-found (None, 404) and never returns the deleted product.
C1_DeletedIsNotFound ==
  [][\A w \in Workers : \A i \in ReqIds :
       (Deleted(i) /\ GetProducts(w, i))
         => (Find(ident[w], i) = {} /\ resp'[w].status = HTTP_404_NOT_FOUND)]_vars

\* After this step find(id), with the id in worker w's response, returns in
\* every session one product, with that id and the five fields of p.
CreatedIsFound(w, p) ==
  \E b \in resp'[w].body :
    \A s \in Workers :
      \E q \in (Find(ident[s], b.id))' :
        /\ (Find(ident[s], b.id))' = {q}
        /\ q.id = b.id
        /\ SameFields(q, p)

\* C2: right after create() of a valid product, find(id) with the id that
\* create assigned returns, in every session, a product with that id whose
\* name, description, price, available and category are those of the
\* product created.
C2_CreateThenFind ==
  [][\A w \in Workers :
       /\ (PostCreate(w) /\ resp'[w].exc = NoExc) => CreatedIsFound(w, prod[w])
       /\ \A data \in ValidBodies : \A cid \in {NoId} \cup ReqIds :
            (ProductCreate(w, data, cid) /\ resp'[w].exc = NoExc)
              => CreatedIsFound(w, Deserialize(NewProduct, data).obj)]_vars
C2_Witness ==
  \E w \in Workers :
    /\ resp[w].status = HTTP_201_CREATED
    /\ \E b \in resp[w].body : Find(ident[w], b.id) # {} /\ b.category = "FOOD"

\* C3: create ignores the id the caller supplied (the step is the one it
\* takes with no id supplied) and assigns an id that no earlier create
\* assigned, those of deleted products included; the ids of the stored
\* products are the ids they were assigned, each once.
C3_IdsNeverReused ==
  [][/\ \A w \in Workers : \A data \in ValidBodies : \A cid \in ReqIds :
          ProductCreate(w, data, cid) => ProductCreate(w, data, NoId)
     /\ created' # created =>
          /\ Len(created') = Len(created) + 1
          /\ SubSeq(created', 1, Len(created)) = created
          /\ created'[Len(created')] \notin Range(created)
          /\ created'[Len(created')] \in DOMAIN store'
     /\ \A i \in DOMAIN store' : store'[i].id = i /\ i \in Range(created')]_vars
C3_Witness ==
  /\ Len(created) = 2
  /\ created[1] \notin DOMAIN store
  /\ created[2] \in DOMAIN store

\* C4: every request is atomic on its single row: a PUT whose body fails
\* validation changes no stored row, and a stored row changes only in the
\* commit of a PUT of that row, so no later request persists fields that a
\* failed PUT had assigned.
C4_RequestsAtomic ==
  [][/\ \A w \in Workers :
          (pc[w] = "put_found" /\ pc'[w] = "idle") => store' = store
     /\ \A i \in DOMAIN store \cap DOMAIN store' :
          store'[i] # store[i] =>
            \E w \in Workers : pc[w] = "put_deser" /\ pc'[w] = "idle" /\ req[w].id = i]_vars

\* The body has all five keys and a price that Decimal() does not take.
UnparsablePrice(data) ==
  /\ data.mapping
  /\ \A k \in RequiredKeys : data.f[k] # Missing
  /\ DecimalOf(data.f["price"]).exc # ""

\* C5: deserialize of a record that has all five keys and a price that cannot
\* be parsed as a decimal fails with DataValidationError, in POST and in PUT,
\* and with no other kind of error.
C5_UnparsablePriceIsValidationError ==
  [][\A w \in Workers :
       /\ \A data \in Bodies :
            (UnparsablePrice(data) /\ PostDeserialize(w, JSON, data))
              => resp'[w].exc.type = "DataValidationError"
       /\ (pc[w] = "put_found" /\ UnparsablePrice(req[w].data) /\ PutDeserialize(w))
              => resp'[w].exc.type = "DataValidationError"]_vars

\* The body is well-formed but for its category, a string that is not the
\* name of a member of Category.
ForeignCategory(data) ==
  /\ data.mapping
  /\ \A k \in RequiredKeys : data.f[k] # Missing
  /\ DecimalOf(data.f["price"]).exc = ""
  /\ data.f["available"].t = "bool"
  /\ data.f["category"].t = "str"
  /\ data.f["category"].v \notin CategoryMembers

\* The category of every product, in memory or stored, is a member.
CategoriesAreMembers ==
  /\ \A i \in DOMAIN store : store[i].category \in CategoryMembers
  /\ \A w \in Workers :
       /\ pc[w] = "post_deser" => prod[w].category \in CategoryMembers
       /\ \A i \in DOMAIN ident[w] : ident[w][i].cur.category \in CategoryMembers

\* C6: deserialize with a category string that is not exactly a member name
\* fails with DataValidationError, so the category of every product, in
\* memory or stored, is a member of the enumeration.
C6_CategoryIsMember ==
  [][/\ \A w \in Workers :
          /\ \A data \in Bodies :
               (ForeignCategory(data) /\ PostDeserialize(w, JSON, data))
                 => resp'[w].exc.type = "DataValidationError"
          /\ (pc[w] = "put_found" /\ ForeignCategory(req[w].data) /\ PutDeserialize(w))
                 => resp'[w].exc.type = "DataValidationError"
     /\ CategoriesAreMembers']_vars

\* C7: GET /products with no name parameter and a category parameter that,
\* uppercased, is no member name is answered with a 4xx status.
C7_UnknownCategoryIsClientError ==
  [][\A w \in Workers : \A c \in CategoryArgs, a \in AvailableArgs :
       (Given(c) /\ Upper(c.v) \notin CategoryMembers /\ List(w, Args(Absent, c, a)))
         => resp'[w].status \in 400 .. 499]_vars

\* A parameter that is in the query string, whatever its text.
Present(a) == a.present

\* The products the precedence name > category > available selects among
\* the parameters that count as supplied.
Selected(Supplied(_), m, args) ==
  IF Supplied(args["name"]) THEN FindByName(m, args["name"].v)
  ELSE IF Supplied(args["category"]) THEN FindByCategory(m, Upper(args["category"].v))
  ELSE IF Supplied(args["available"])
    THEN FindByAvailability(m, Lower(args["available"].v) \in {"true", "yes", "1"})
  ELSE All(m)

\* The category parameter is the one chosen and names no member.
UnknownCategory(n, c) == ~Given(n) /\ Given(c) /\ Upper(c.v) \notin CategoryMembers

UpdateIdIsTruthy ==
  \A w \in Workers :
    /\ pc[w] = "put_deser" => Truthy(req[w].id)
    /\ resp[w].exc.msg # "Update called with empty ID field"

\* Worker w's PUT is answered in this step without update having been called:
\* by check_content_type or find, or by deserialize.
RefusedAtFind(w) ==
  pc[w] = "idle" /\ pc'[w] = "idle" /\ req'[w].kind = "PUT" /\ resp'[w] # resp[w]
RefusedAtDeserialize(w) == pc[w] = "put_found" /\ pc'[w] = "idle"

Asked(i, data) == [Deserialize(NewProduct, data).obj EXCEPT !.id = i]

\* C10: when two PUTs of the same id ran concurrently and both were answered
\* 200, the stored row equals, in all five fields, the body of one of them.
C10_LastWriteWins ==
  \A w \in Workers : \A o \in Workers \ {w} :
    ( /\ pc[w] = "idle" /\ pc[o] = "idle"
      /\ req[w].kind = "PUT" /\ req[o].kind = "PUT"
      /\ req[w].overlap /\ req[o].overlap
      /\ req[w].id = req[o].id
      /\ resp[w].status = HTTP_200_OK /\ resp[o].status = HTTP_200_OK
      /\ req[w].id \in DOMAIN store )
    => store[req[w].id] \in {Asked(req[w].id, req[w].data), Asked(req[o].id, req[o].data)}

====
